---- MODULE Spec2Model ----
\* parsekit: the token stream (Scanner.Tokens over a caller-supplied Lexer), the
\* one-token-lookahead Parser with its panic/recover synchronisation protocol, and
\* the streaming scanner (byteReader, LexString, LexIdent, ScanWithTable).
EXTENDS Integers, Sequences, FiniteSets, TLC

\* ---------------------------------------------------------------- bounds
\* longest source text of the free-driver specification
MaxLen == 2
\* most bytes one Lexer call consumes
MaxAdv == 2
\* most failures / terminal errors raised in one run of the free driver
MaxRaise == 2

\* ---------------------------------------------------------------- tokens
\* scanner.go:316-323
EOFToken == 0
InvalidToken == -1
ScanToken == -2
\* part_004:36-39 (token types of the option grammar)
OptionToken == ScanToken
StringToken == ScanToken - 1

NoValue == "nil"

\* type Token struct { Type; Value; Lexeme; pos }
Token(type, value, lexeme, pos) ==
  [Type |-> type, Value |-> value, Lexeme |-> lexeme, pos |-> pos]

\* var EOF Token (the zero Token)
EOF == Token(EOFToken, NoValue, <<>>, 0)
\* var Ignore = Token{Type: InvalidToken}
Ignore == Token(InvalidToken, NoValue, <<>>, 0)
\* func Const(r rune) Token
Const(r) == Token(r, NoValue, <<>>, 0)

Min(a, b) == IF a < b THEN a ELSE b

\* ---------------------------------------------------------------- state
VARIABLES
  src,      \* Scanner.src: the source text, a sequence of bytes
  fname,    \* Scanner.fname
  scerr,    \* Scanner.err: "nil" or the load error
  start,    \* Scanner.start
  off,      \* Scanner.off
  lx,       \* emb.lx: which Lexer the parser was given
  it,       \* where the pulled Tokens iterator is suspended
  peek,     \* Parser.peek
  tok,      \* Parser.tok
  errors,   \* Parser.errors, as the sequence of the errors it joins
  Value,    \* Parser.Value: the records the driver produced
  syncLit,  \* emb.syncLit
  panic,    \* the panic in flight towards the deferred Synchronize
  pc,       \* the driver's position
  lexlog,   \* history: every Lexer call, [start, off, tk]
  yielded,  \* history: every token the iterator yielded
  npull,    \* history: number of p.next() calls
  consumed, \* history: the tokens the parser consumed
  last,     \* history: the last parser operation and what it did
  br,       \* Scanner.br: the byteReader of the streaming scanner, and its reader
  out,      \* the last call on the streaming scanner and what it returned
  sc        \* the streaming Scanner's files, last, line and offset

scvars == <<src, fname, scerr, lx, syncLit, br, out, sc>>
vars == <<src, fname, scerr, start, off, lx, it, peek, tok, errors, Value,
          syncLit, panic, pc, lexlog, yielded, npull, consumed, last, br, out, sc>>

\* a byteReader with no reader and nothing read: type byteReader struct, with the
\* reader r as the bytes it still holds and whether it will fail, and the number
\* of Read calls made on it
NoReader ==
  [data |-> <<>>, off |-> 0, cap |-> 0, err |-> "nil", open |-> FALSE,
   rd |-> [pending |-> <<>>, fails |-> FALSE], nread |-> 0]
NoOut ==
  [op |-> "none", ret |-> 0, st |-> 0, idle |-> 0, input |-> <<>>, win |-> 0, tab |-> <<>>,
   r |-> ""]
\* type Scanner struct, without br: the files by name, each as what its reader
\* holds, last as an index in them (0 is the placeholder in front of the first)
NoScanner == [files |-> <<>>, last |-> 0, line |-> 0, offset |-> 0]

\* ---------------------------------------------------------------- the Lexer
\* What a Lexer may hand back (type Lexer func(s *Scanner) Token): Ignore, a
\* constant token, a token with a value (Auto), a token whose Lexeme the Lexer set
\* itself (lexOpts: Token{Lexeme: string(r)}), and a token of Ignore's type that
\* is not Ignore.
LexTokens ==
  { Ignore,
    Const(OptionToken),
    Token(StringToken, "v", <<>>, 0),
    Token(EOFToken, NoValue, <<"z">>, 0),
    Token(InvalidToken, "v", <<>>, 0) }

\* A Lexer in the manner of lexOpts that decides on the byte it reads and makes
\* one token of it: blanks are ignored, "o" is the option keyword, "s" a string,
\* anything else a token of type 0 with the Lexeme set by the Lexer.
ByteLexer(b) ==
  CASE b \in {" ", "\n"} -> Ignore
    [] b = "o" -> Const(OptionToken)
    [] b = "s" -> Token(StringToken, "v", <<>>, 0)
    [] OTHER -> Token(EOFToken, NoValue, <<b>>, 0)

\* The results one Lexer call at offset of may have: the bytes it consumes through
\* Scanner.Advance (at least one, never past the end) and the token it returns.
\* The call of a Lexer that was never set (nil) returns nothing: it panics.
LexResults(of) ==
  IF lx = "byte"
    THEN {[adv |-> 1, tk |-> ByteLexer(src[of + 1])]}
  ELSE IF lx = "nil"
    THEN {}
    ELSE {[adv |-> a, tk |-> t] : a \in 1..Min(MaxAdv, Len(src) - of), t \in LexTokens}

\* ---------------------------------------------------------------- Scanner.Tokens
\* an iterator body that leaves alone a Lexeme the Lexer set
RECURSIVE Scan_KeepsLexeme(_, _, _, _)
Scan_KeepsLexeme(st, of, log, yl) ==
  IF of < Len(src)
    THEN UNION {
      LET of2 == of + r.adv
          log2 == Append(log, [start |-> st, off |-> of2, tk |-> r.tk])
      IN  IF r.tk # Ignore
            THEN LET tk == [r.tk EXCEPT !.pos = st,
                                        !.Lexeme = IF @ = <<>> THEN SubSeq(src, st + 1, of2) ELSE @]
                 IN  {[start |-> st, off |-> of2, it |-> "yield", lexlog |-> log2,
                       yielded |-> Append(yl, tk), tk |-> tk]}
            ELSE Scan_KeepsLexeme(of2, of2, log2, yl)
      : r \in LexResults(of) }
    ELSE {[start |-> st, off |-> of, it |-> "eof", lexlog |-> log,
           yielded |-> Append(yl, EOF), tk |-> EOF]}

\* The body of the iterator from the loop test to its next yield, started with
\* s.start = st and s.off = of; log and yl are the histories so far.
RECURSIVE Scan(_, _, _, _)
Scan(st, of, log, yl) ==
  IF of < Len(src)
    THEN UNION {
      LET of2 == of + r.adv
          log2 == Append(log, [start |-> st, off |-> of2, tk |-> r.tk])
      IN  IF r.tk # Ignore
            THEN LET tk == [r.tk EXCEPT !.pos = st, !.Lexeme = SubSeq(src, st + 1, of2)]
                 IN  {[start |-> st, off |-> of2, it |-> "yield", lexlog |-> log2,
                       yielded |-> Append(yl, tk), tk |-> tk]}
            ELSE Scan(of2, of2, log2, yl)
      : r \in LexResults(of) }
    ELSE {[start |-> st, off |-> of, it |-> "eof", lexlog |-> log,
           yielded |-> Append(yl, EOF), tk |-> EOF]}

\* an iterator that yields EOF again each time it is resumed after EOF
Tokens_RepeatsEOF(m) ==
  CASE m.it \in {"done", "eof"} ->
         {[start |-> m.start, off |-> m.off, it |-> "eof", lexlog |-> m.lexlog,
           yielded |-> Append(m.yielded, EOF), tk |-> EOF]}
    [] m.it = "new" /\ scerr # "nil" ->
         LET tk == Token(EOFToken, scerr, <<>>, 0)
         IN  {[start |-> m.start, off |-> m.off, it |-> "eof", lexlog |-> m.lexlog,
               yielded |-> Append(m.yielded, tk), tk |-> tk]}
    [] m.it = "new" -> Scan(0, m.off, m.lexlog, m.yielded)
    [] OTHER -> Scan(m.off, m.off, m.lexlog, m.yielded)

\* an iterator that does not look at s.err
Tokens_IgnoresErr(m) ==
  CASE m.it \in {"done", "eof"} ->
         {[start |-> m.start, off |-> m.off, it |-> "done", lexlog |-> m.lexlog,
           yielded |-> m.yielded, tk |-> EOF]}
    [] m.it = "new" -> Scan(0, m.off, m.lexlog, m.yielded)
    [] OTHER -> Scan(m.off, m.off, m.lexlog, m.yielded)

\* The iterator Tokens returns, resumed where it is suspended (iter.Pull's next):
\* the set of possible results, each with the token next() returns.
Tokens(m) ==
  CASE m.it = "done" ->
         {[start |-> m.start, off |-> m.off, it |-> "done", lexlog |-> m.lexlog,
           yielded |-> m.yielded, tk |-> EOF]}
    [] m.it = "eof" ->
         {[start |-> m.start, off |-> m.off, it |-> "done", lexlog |-> m.lexlog,
           yielded |-> m.yielded, tk |-> EOF]}
    [] m.it = "new" /\ scerr # "nil" ->
         LET tk == Token(EOFToken, scerr, <<>>, 0)
         IN  {[start |-> m.start, off |-> m.off, it |-> "eof", lexlog |-> m.lexlog,
               yielded |-> Append(m.yielded, tk), tk |-> tk]}
    [] m.it = "new" -> Scan(0, m.off, m.lexlog, m.yielded)
    [] OTHER -> Scan(m.off, m.off, m.lexlog, m.yielded)

\* ---------------------------------------------------------------- Parser
\* The parser and scanner fields the token operations read and write.
Machine ==
  [start |-> start, off |-> off, it |-> it, peek |-> peek, tok |-> tok,
   lexlog |-> lexlog, yielded |-> yielded, npull |-> npull, consumed |-> consumed]

\* func (p *Parser[T]) lnext()
lnext(m) ==
  IF m.peek
    THEN {m}
    ELSE {[m EXCEPT !.tok = r.tk, !.start = r.start, !.off = r.off, !.it = r.it,
                    !.lexlog = r.lexlog, !.yielded = r.yielded, !.npull = @ + 1]
          : r \in Tokens(m)}

\* More that forgets to mark the lookahead as buffered
MoreM_NoPeek(m) ==
  {[m |-> n, ret |-> n.tok # EOF] : n \in lnext(m)}

\* func (p *Parser[T]) More() bool
MoreM(m) ==
  {[m |-> [n EXCEPT !.peek = TRUE], ret |-> n.tok # EOF] : n \in lnext(m)}

\* Skip that pulls a token even when one is buffered
SkipM_AlwaysPulls(m) ==
  {[n EXCEPT !.peek = FALSE, !.consumed = Append(@, n.tok)]
   : n \in lnext([m EXCEPT !.peek = FALSE])}

\* func (p *Parser[T]) Skip()
SkipM(m) ==
  IF m.peek
    THEN {[m EXCEPT !.peek = FALSE, !.consumed = Append(@, m.tok)]}
    ELSE {[n EXCEPT !.consumed = Append(@, n.tok)] : n \in lnext(m)}

\* func (p *Parser[T]) Match(tk ...rune) bool
MatchM(m, tks) ==
  {IF n.tok.Type \in tks
     THEN [m |-> [n EXCEPT !.peek = FALSE, !.consumed = Append(@, n.tok)], ret |-> TRUE]
     ELSE [m |-> [n EXCEPT !.peek = TRUE], ret |-> FALSE]
   : n \in lnext(m)}

\* ---------------------------------------------------------------- positions
\* strings.Split(s, "\n"): the segments between the newlines of s
RECURSIVE Split(_)
Split(s) ==
  IF \A i \in 1..Len(s) : s[i] # "\n"
    THEN <<s>>
    ELSE LET i == CHOOSE j \in 1..Len(s) : s[j] = "\n" /\ \A k \in 1..(j - 1) : s[k] # "\n"
         IN  <<SubSeq(s, 1, i - 1)>> \o Split(SubSeq(s, i + 1, Len(s)))

\* the loop of locate over the segments: ln++ and col -= len(l) for each
RECURSIVE LocateLoop(_, _, _)
LocateLoop(all, ln, col) ==
  IF all = <<>>
    THEN [ln |-> ln, col |-> col]
    ELSE LocateLoop(Tail(all), ln + 1, col - Len(Head(all)))

\* type Position struct
Position(filename, offset, line, column) ==
  [Filename |-> filename, Offset |-> offset, Line |-> line, Column |-> column]

\* a locate that numbers the lines from 0
locate_LinesFromZero(tk) ==
  LET all == Split(SubSeq(src, 1, tk.pos))
      r == IF Len(all) > 1 THEN LocateLoop(all, -1, tk.pos) ELSE [ln |-> 0, col |-> tk.pos]
  IN  Position(fname, tk.pos, r.ln, r.col)

\* func (s *Scanner) locate(tk Token) Position
locate(tk) ==
  LET all == Split(SubSeq(src, 1, tk.pos))
      r == IF Len(all) > 1 THEN LocateLoop(all, 0, tk.pos) ELSE [ln |-> 1, col |-> tk.pos]
  IN  Position(fname, tk.pos, r.ln, r.col)

\* func (pos Position) String() string
PositionString(pos) ==
  LET s == IF pos.Filename = "" THEN "<input>" ELSE pos.Filename
  IN  IF pos.Line > 0 THEN <<s, ":", pos.Line, ":", pos.Column>> ELSE <<s>>

\* ---------------------------------------------------------------- errors
\* fmt's %q of a lexeme: quoted, a newline written as backslash n
QuoteByte(b) == IF b = "\n" THEN <<"\\", "n">> ELSE <<b>>
RECURSIVE QuoteBytes(_)
QuoteBytes(s) == IF s = <<>> THEN <<>> ELSE QuoteByte(Head(s)) \o QuoteBytes(Tail(s))
Quote(s) == <<"\"">> \o QuoteBytes(s) \o <<"\"">>

\* the message Expect formats: "expected %s, got %q instead"
ExpectMsg(msg, lexeme) == <<"expected ", msg, ", got ">> \o Quote(lexeme) \o <<" instead">>

\* type parseError struct { pos; msg }, and any other error value
parseError(pos, msg) == [kind |-> "parseError", pos |-> pos, msg |-> msg]
PlainError(e) == [kind |-> "error", pos |-> Position("", 0, 0, 0), msg |-> <<e>>]

\* func (e parseError) Error() string, and Error() of any other error
ErrorText(e) ==
  IF e.kind = "parseError"
    THEN <<"at ">> \o PositionString(e.pos) \o <<": ">> \o e.msg
    ELSE e.msg

\* a join that keeps the new error only
Join_KeepsLast(errs, pe) == <<pe>>

\* a join that puts the new failure first
Join_Prepends(errs, pe) == <<pe>> \o errs

\* errors.Join(p.errors, pe): the joined errors in order (a nil p.errors adds nothing)
Join(errs, pe) == Append(errs, pe)

\* the panics: none, stopparsing{}, a parseError, or a value that is neither
NoPanic == [kind |-> "none", pe |-> parseError(Position("", 0, 0, 0), <<>>)]
stopparsing == [kind |-> "stopparsing", pe |-> parseError(Position("", 0, 0, 0), <<>>)]
PanicWith(pe) == [kind |-> "parseError", pe |-> pe]

\* func (p *Parser[T]) Errf(format, args...): the error it stores and the panic it raises
Errf(tk, errs, msg) ==
  IF scerr # "nil"
    THEN [errors |-> <<PlainError(scerr)>>, panic |-> stopparsing]
    ELSE [errors |-> errs, panic |-> PanicWith(parseError(locate(tk), msg))]

\* func (p *Parser[T]) Err(err error)
Err(e) == [errors |-> <<PlainError(e)>>, panic |-> stopparsing]

\* func (p *Parser[T]) Expect(tk rune, msg string)
ExpectM(m, errs, tk, msg) ==
  {IF n.tok.Type = tk
     THEN [m |-> [n EXCEPT !.peek = FALSE, !.consumed = Append(@, n.tok)],
           errors |-> errs, panic |-> NoPanic]
     ELSE [m |-> n] @@ Errf(n.tok, errs, ExpectMsg(msg, n.tok.Lexeme))
   : n \in lnext(m)}

\* a recovery loop that takes the synchronisation literal it stops at
RECURSIVE SyncLoop_TakesLiteral(_, _)
SyncLoop_TakesLiteral(m, skipped) ==
  UNION {
    IF ~r.ret
      THEN {[m |-> r.m, skipped |-> skipped, ret |-> "eof"]}
      ELSE IF r.m.tok.Lexeme \in syncLit
        THEN {[m |-> n, skipped |-> skipped, ret |-> "literal"] : n \in SkipM(r.m)}
        ELSE UNION {SyncLoop_TakesLiteral(n, Append(skipped, r.m.tok)) : n \in SkipM(r.m)}
    : r \in MoreM(m) }

\* the recovery loop of Synchronize: for p.More() { if slices.Contains(...) return; p.Skip() }
RECURSIVE SyncLoop(_, _)
SyncLoop(m, skipped) ==
  UNION {
    IF ~r.ret
      THEN {[m |-> r.m, skipped |-> skipped, ret |-> "eof"]}
      ELSE IF r.m.tok.Lexeme \in syncLit
        THEN {[m |-> r.m, skipped |-> skipped, ret |-> "literal"]}
        ELSE UNION {SyncLoop(n, Append(skipped, r.m.tok)) : n \in SkipM(r.m)}
    : r \in MoreM(m) }

\* a Synchronize that recovers from stopparsing as it does from a parseError
SynchronizeM_RecoversStop(m, errs, pn) ==
  CASE pn.kind = "none" ->
         {[m |-> m, errors |-> errs, panic |-> NoPanic, skipped |-> <<>>, ret |-> "nopanic"]}
    [] OTHER ->
         {[m |-> r.m, errors |-> Join(errs, pn.pe), panic |-> NoPanic,
           skipped |-> r.skipped, ret |-> IF pn.kind = "stopparsing" THEN "stop" ELSE r.ret]
          : r \in SyncLoop(m, <<>>)}

\* func (p *Parser[T]) Synchronize(), run with the panic pn in flight
SynchronizeM(m, errs, pn) ==
  CASE pn.kind = "none" ->
         {[m |-> m, errors |-> errs, panic |-> NoPanic, skipped |-> <<>>, ret |-> "nopanic"]}
    [] pn.kind = "stopparsing" ->
         {[m |-> m, errors |-> errs, panic |-> NoPanic, skipped |-> <<>>, ret |-> "stop"]}
    [] pn.kind = "parseError" ->
         {[m |-> r.m, errors |-> Join(errs, pn.pe), panic |-> NoPanic,
           skipped |-> r.skipped, ret |-> r.ret] : r \in SyncLoop(m, <<>>)}
    [] OTHER ->
         {[m |-> m, errors |-> errs, panic |-> PanicWith(NoPanic.pe), skipped |-> <<>>,
           ret |-> "repanic"]}

\* ---------------------------------------------------------------- construction
\* the texts of at most n bytes over the alphabet bytes
RECURSIVE Texts(_, _)
Texts(bytes, n) ==
  IF n = 0 THEN {<<>>}
  ELSE LET shorter == Texts(bytes, n - 1)
       IN  shorter \cup {Append(t, b) : t \in {u \in shorter : Len(u) = n - 1}, b \in bytes}

NoLast == [op |-> "Init", ret |-> "", arg |-> 0, streak |-> 0, spulls |-> 0, srets |-> {}]

\* the fields of a new parser and of its scanner
InitFields(text, name, err, lexer, lits) ==
  /\ src = text
  /\ fname = name
  /\ scerr = err
  /\ lx = lexer
  /\ syncLit = lits
  /\ start = 0
  /\ off = 0
  /\ it = "new"
  /\ peek = FALSE
  /\ tok = EOF
  /\ errors = <<>>
  /\ Value = 0
  /\ panic = NoPanic
  /\ lexlog = <<>>
  /\ yielded = <<>>
  /\ npull = 0
  /\ consumed = <<>>
  /\ last = NoLast

\* func Init[T any](opts ...ParserOptions): the options applied, Tokens pulled;
\* the source is read whole, no byteReader is used
InitParser(text, name, err, lexer, lits) ==
  /\ InitFields(text, name, err, lexer, lits)
  /\ br = NoReader
  /\ out = NoOut
  /\ sc = NoScanner

\* ReadString(src), or ReadFile(name) that loads or fails
ReadString(texts) == {[src |-> t, fname |-> "<input>", err |-> "nil"] : t \in texts}
ReadFile(texts) ==
  {[src |-> t, fname |-> "f", err |-> "nil"] : t \in texts}
    \cup {[src |-> <<>>, fname |-> "", err |-> "ENOENT"]}

\* the free driver: any parser operation at any time, over a source of the bytes
\* the byte Lexer tells apart
Init ==
  /\ pc = "free"
  /\ \E s \in ReadString(Texts({"o", "s", "\n"}, MaxLen)) \cup ReadFile({<<"\n", "x">>}),
        lits \in {{<<"o">>}} :
       InitParser(s.src, s.fname, s.err, "byte", lits)

\* ---------------------------------------------------------------- operations
Apply(m) ==
  /\ start' = m.start
  /\ off' = m.off
  /\ it' = m.it
  /\ peek' = m.peek
  /\ tok' = m.tok
  /\ lexlog' = m.lexlog
  /\ yielded' = m.yielded
  /\ npull' = m.npull
  /\ consumed' = m.consumed

\* The stream of a source has at most len(source) tokens and the EOF: the drivers
\* pull and consume one token past that, and no more.
MayPull == (peek \/ npull < Len(src) + 2) /\ Len(consumed) < Len(src) + 2

\* the record of an operation (arg: the type an Expect asked for): a probe is a
\* More or a Match that returned false;
\* streak counts the probes in a row (2 stands for two or more), spulls the tokens
\* they pulled, srets the results of the More calls among them
Did(op, ret, m, probe) ==
  LET base == IF probe THEN last ELSE NoLast
  IN  [op |-> op, ret |-> ret, arg |-> 0,
       streak |-> IF probe THEN Min(base.streak + 1, 2) ELSE 0,
       spulls |-> IF probe THEN base.spulls + (m.npull - npull) ELSE 0,
       srets |-> IF probe /\ op = "More" THEN base.srets \cup {ret}
                 ELSE IF probe THEN base.srets ELSE {}]

Str(b) == IF b THEN "true" ELSE "false"

More ==
  /\ panic = NoPanic
  /\ \E r \in MoreM(Machine) :
       /\ Apply(r.m)
       /\ last' = Did("More", Str(r.ret), r.m, TRUE)
  /\ UNCHANGED <<errors, Value, panic, scvars>>

Match(tks) ==
  /\ panic = NoPanic
  /\ \E r \in MatchM(Machine, tks) :
       /\ Apply(r.m)
       /\ last' = Did("Match", Str(r.ret), r.m, ~r.ret)
  /\ UNCHANGED <<errors, Value, panic, scvars>>

Skip ==
  /\ panic = NoPanic
  /\ \E m \in SkipM(Machine) :
       /\ Apply(m)
       /\ last' = Did("Skip", "", m, FALSE)
  /\ UNCHANGED <<errors, Value, panic, scvars>>

Expect(tk, msg) ==
  /\ panic = NoPanic
  /\ \E r \in ExpectM(Machine, errors, tk, msg) :
       /\ Apply(r.m)
       /\ errors' = r.errors
       /\ panic' = r.panic
       /\ last' = [Did("Expect", Str(r.panic = NoPanic), r.m, FALSE) EXCEPT !.arg = tk]
  /\ UNCHANGED <<Value, scvars>>

\* the driver calls Errf itself
CallErrf(msg) ==
  /\ panic = NoPanic
  /\ LET r == Errf(tok, errors, <<msg>>)
     IN  /\ errors' = r.errors
         /\ panic' = r.panic
  /\ Apply(Machine)
  /\ last' = Did("Errf", "", Machine, FALSE)
  /\ UNCHANGED <<Value, scvars>>

\* the driver calls Err
CallErr(e) ==
  /\ panic = NoPanic
  /\ LET r == Err(e)
     IN  /\ errors' = r.errors
         /\ panic' = r.panic
  /\ Apply(Machine)
  /\ last' = Did("Err", "", Machine, FALSE)
  /\ UNCHANGED <<Value, scvars>>

\* a deferred Synchronize runs, with whatever panic is in flight
RunSynchronize ==
  /\ \E r \in SynchronizeM(Machine, errors, panic) :
       /\ Apply(r.m)
       /\ errors' = r.errors
       /\ panic' = r.panic
       /\ last' = Did("Synchronize", r.ret, r.m, FALSE)
  /\ UNCHANGED <<Value, scvars>>

\* the deferred Synchronize of the production runs
Synchronize ==
  /\ last.op # "Synchronize"
  /\ RunSynchronize

\* a panic that is not the parser's: a payload v that is neither a parseError nor
\* stopparsing
ForeignPanic(v) == [kind |-> v, pe |-> NoPanic.pe]

\* the production's own code panics with v
Raise(v) ==
  /\ panic = NoPanic
  /\ panic' = ForeignPanic(v)
  /\ Apply(Machine)
  /\ last' = Did("panic", v, Machine, FALSE)
  /\ UNCHANGED <<errors, Value, scvars>>

\* func (p *Parser[T]) Finish() (T, error): p.stop() ends the iterator
Finish ==
  /\ panic = NoPanic
  /\ Apply([Machine EXCEPT !.it = "done"])
  /\ last' = Did("Finish", "", Machine, FALSE)
  /\ UNCHANGED <<errors, Value, panic, scvars>>

Tags == {OptionToken, StringToken}
Desc(tk) == IF tk = OptionToken THEN "the option keyword" ELSE "an option value"

\* the free driver stops raising after MaxRaise joined errors
MayRaise == Len(errors) < MaxRaise

Next ==
  \/ pc = "free" /\ MayPull /\ More /\ UNCHANGED pc
  \/ pc = "free" /\ MayPull /\ (\E tks \in SUBSET Tags : Match(tks)) /\ UNCHANGED pc
  \/ pc = "free" /\ MayPull /\ Skip /\ UNCHANGED pc
  \/ pc = "free" /\ MayPull /\ MayRaise /\ (\E tk \in Tags : Expect(tk, Desc(tk))) /\ UNCHANGED pc
  \/ pc = "free" /\ MayRaise /\ CallErrf("custom") /\ UNCHANGED pc
  \/ pc = "free" /\ CallErr("E1") /\ UNCHANGED pc
  \/ pc = "free" /\ Synchronize /\ UNCHANGED pc
  \/ pc = "free" /\ Finish /\ pc' = "finished"

Spec == Init /\ [][Next]_vars

\* ---------------------------------------------------------------- the token stream alone
\* a consumer that only looks at and takes tokens, over any Lexer
InitTokens ==
  /\ pc = "free"
  /\ \E s \in ReadString(Texts({"k", "\n"}, MaxLen + 1)) \cup ReadFile({}) :
       InitParser(s.src, s.fname, s.err, "any", {<<"k">>})

NextTokens ==
  \/ MayPull /\ More /\ UNCHANGED pc
  \/ MayPull /\ Skip /\ UNCHANGED pc

SpecTokens == InitTokens /\ [][NextTokens]_vars

\* ---------------------------------------------------------------- a record grammar
\* most well-formed records before, between and after the malformed ones
MaxGap == 1

\* a record is the option keyword and two strings, on a line of its own
GoodRecord == <<"o", "s", "s">>
\* a malformed record has one wrong token, in the place of any of the three: a
\* token of type 0, a string for the keyword, or the keyword for a string
BadRecords ==
  {<<"x", "s", "s">>, <<"o", "x", "s">>, <<"o", "s", "x">>,
   <<"s", "s", "s">>, <<"o", "o", "s">>, <<"o", "s", "o">>}

RECURSIVE Lines(_)
Lines(recs) == IF recs = <<>> THEN <<>> ELSE Head(recs) \o <<"\n">> \o Lines(Tail(recs))

Goods(n) == [i \in 1..n |-> GoodRecord]

\* three malformed records, well-formed ones between them
RecordTexts ==
  {Lines(Goods(a) \o <<m1>> \o Goods(b) \o <<m2>> \o Goods(c) \o <<m3>> \o Goods(d))
   : a \in 0..MaxGap, b \in 1..MaxGap, c \in 1..MaxGap, d \in 0..MaxGap,
     m1 \in BadRecords, m2 \in BadRecords, m3 \in BadRecords}

InitRecords ==
  /\ pc = "loop"
  /\ \E t \in RecordTexts : InitParser(t, "<input>", "nil", "byte", {<<"o">>})

\* what the production expects at each of its three steps (parseOptions)
RecordTag(at) == IF at = "e1" THEN OptionToken ELSE StringToken
RecordDesc(at) ==
  CASE at = "e1" -> "the option keyword"
    [] at = "e2" -> "an option name"
    [] OTHER -> "an option value"
RecordNext(at) ==
  CASE at = "e1" -> "e2"
    [] at = "e2" -> "e3"
    [] OTHER -> "emit"

\* the production stores its record in p.Value
Produce ==
  /\ Value' = Value + 1
  /\ last' = Did("Produce", "", Machine, FALSE)
  /\ UNCHANGED <<src, fname, scerr, start, off, lx, it, peek, tok, errors, syncLit,
                 panic, lexlog, yielded, npull, consumed, br, out, sc>>

\* for p.More() { func() { defer p.Synchronize(); Expect; Expect; Expect; produce }() }
\* and then p.Finish()
NextRecords ==
  \/ pc = "loop" /\ More /\ pc' = IF last'.ret = "true" THEN "e1" ELSE "end"
  \/ /\ pc \in {"e1", "e2", "e3"}
     /\ Expect(RecordTag(pc), RecordDesc(pc))
     /\ pc' = IF panic' = NoPanic THEN RecordNext(pc) ELSE "defer"
  \/ pc = "emit" /\ Produce /\ pc' = "defer"
  \/ pc = "defer" /\ Synchronize /\ pc' = "loop"
  \/ pc = "end" /\ Finish /\ pc' = "finished"

SpecRecords == InitRecords /\ [][NextRecords]_vars

\* ---------------------------------------------------------------- properties
\* the token stream as the parser's pulls see it: what was yielded, then EOF for ever
Stream(i) == IF i <= Len(yielded) THEN yielded[i] ELSE EOF

\* C3: More and a Match that returns false never consume: after any number of them in
\* a row at most one token was pulled and it is buffered, every More returned the
\* same result, true iff that token is not EOF, nothing was consumed, and the next
\* Expect, Match or Skip works on that buffered token without pulling another.
C3_ProbeState ==
  last.streak > 0 =>
    /\ last.spulls <= 1
    /\ peek
    /\ tok = Stream(npull)
    /\ last.srets \subseteq {Str(tok # EOF)}
C3_ProbeStep ==
  /\ last'.streak > 0 => consumed' = consumed
  /\ (last.streak > 0 /\ last'.op \in {"Expect", "Match", "Skip", "More"}) =>
       /\ npull' = npull
       /\ tok' = tok
       /\ consumed' \in {consumed, Append(consumed, tok)}
C3_ProbesDoNotConsume == [](C3_ProbeState) /\ [][C3_ProbeStep]_vars
C3_Witness ==
  /\ last.streak = 2
  /\ last.spulls = 1
  /\ last.op = "Match"
  /\ last.srets = {"true"}

\* no failure has been raised so far: only More, Match, Expect and Skip have run
\* (and Synchronize with nothing to recover), and every Expect succeeded
NoFailureYet == errors = <<>> /\ panic = NoPanic

\* C4: while no Expect fails, the tokens consumed are exactly a prefix of the token
\* stream in stream order, one per successful Expect, successful Match and Skip, and
\* every token pulled is either consumed or the one still buffered.
C4_State ==
  NoFailureYet =>
    /\ \A i \in 1..Len(consumed) : consumed[i] = Stream(i)
    /\ npull = Len(consumed) + (IF peek THEN 1 ELSE 0)
    /\ peek => tok = Stream(npull)
C4_Step ==
  (NoFailureYet /\ NoFailureYet') =>
    Len(consumed') - Len(consumed) =
      IF last'.op = "Skip" \/ (last'.op \in {"Expect", "Match"} /\ last'.ret = "true")
        THEN 1 ELSE 0
C4_ConsumedIsStreamPrefix == [](C4_State) /\ [][C4_Step]_vars
C4_Witness ==
  /\ NoFailureYet
  /\ Len(consumed) = 3
  /\ consumed[1].Type = OptionToken
  /\ consumed[3] = EOF
  /\ last.op = "Skip"

\* Synchronize has just recovered a parseError
Recovered == last.op = "Synchronize" /\ last.ret \in {"literal", "eof"}
\* (a) the lookahead is buffered, not consumed, and its lexeme is a synchronisation literal
AtLiteral ==
  /\ peek
  /\ tok # EOF
  /\ tok.Lexeme \in syncLit
  /\ tok = Stream(npull)
  /\ \A i \in 1..Len(consumed) : consumed[i] # tok
\* (b) the stream has reached EOF
AtEOF == tok = EOF /\ it \in {"eof", "done"}

\* C1: when Synchronize recovers a parseError it joins it into the accumulated errors
\* and discards tokens, none of them a synchronisation literal, until the lookahead
\* is a buffered synchronisation literal, which the next More, Expect or Match sees,
\* or the stream is at EOF: exactly one of the two.
C1_SyncState == Recovered => (AtLiteral \/ AtEOF) /\ ~(AtLiteral /\ AtEOF)
C1_SyncStep ==
  /\ (panic.kind = "parseError" /\ last'.op = "Synchronize") =>
       /\ errors' = Append(errors, panic.pe)
       /\ panic' = NoPanic
       /\ Len(consumed') >= Len(consumed)
       /\ SubSeq(consumed', 1, Len(consumed)) = consumed
       /\ \A i \in (Len(consumed) + 1)..Len(consumed') :
            consumed'[i].Lexeme \notin syncLit /\ consumed'[i] # EOF
  /\ (Recovered /\ AtLiteral /\ last'.op \in {"More", "Expect", "Match"}) =>
       /\ npull' = npull
       /\ tok' = tok
C1_SynchronizeStopsAtLiteralOrEOF == [](C1_SyncState) /\ [][C1_SyncStep]_vars
C1_Witness ==
  /\ Recovered
  /\ AtLiteral
  /\ Len(errors) = 1
  /\ Len(consumed) = 1
  /\ consumed[1].Type = StringToken

\* C10: a stopparsing panic passes through Synchronize: no token is pulled or
\* consumed, lookahead and peek stay, nothing is joined, and the accumulated error is
\* the one Err or Errf stored when it raised the panic.
C10_StopState ==
  panic.kind = "stopparsing" =>
    \/ last.op = "Err" /\ errors = <<PlainError("E1")>>
    \/ last.op \in {"Errf", "Expect"} /\ scerr # "nil" /\ errors = <<PlainError(scerr)>>
C10_StopStep ==
  (panic.kind = "stopparsing" /\ last'.op = "Synchronize") =>
    /\ panic' = NoPanic
    /\ UNCHANGED <<tok, peek, errors, npull, consumed, yielded, lexlog, start, off, it>>
C10_StopPassesThrough == [](C10_StopState) /\ [][C10_StopStep]_vars
C10_Witness ==
  /\ last.op = "Synchronize"
  /\ last.ret = "stop"
  /\ peek
  /\ tok.Value = "ENOENT"
  /\ errors = <<PlainError("ENOENT")>>

\* the Lexer calls whose result was not Ignore, in order
NotIgnored(e) == e.tk # Ignore
Results == SelectSeq(lexlog, NotIgnored)
Ended == it \in {"eof", "done"}

\* C7: over a loaded source and a Lexer that consumes at least one byte a call, the
\* stream yields, in order, the Lexer's results that are not Ignore, never a token
\* equal to Ignore, then exactly one EOF once the source is exhausted, then nothing;
\* the Lexer is called at most len(source) times.
C7_StreamIsResultsThenEOF ==
  scerr = "nil" =>
    /\ Len(yielded) = Len(Results) + (IF Ended THEN 1 ELSE 0)
    /\ \A i \in 1..Len(Results) :
         /\ yielded[i].Type = Results[i].tk.Type
         /\ yielded[i].Value = Results[i].tk.Value
         /\ yielded[i] # Ignore
         /\ yielded[i] # EOF
    /\ Ended => yielded[Len(yielded)] = EOF /\ off = Len(src)
    /\ npull >= Len(yielded)
    /\ npull > Len(yielded) <=> it = "done"
    /\ Len(lexlog) <= Len(src)
    /\ \A i \in 1..Len(lexlog) : lexlog[i].start < Len(src)
C7_Witness ==
  /\ scerr = "nil"
  /\ it = "done"
  /\ Len(lexlog) = 2
  /\ lexlog[1].tk = Ignore
  /\ Len(yielded) = 2
  /\ yielded[1].Type = InvalidToken

\* C8: every token yielded from a Lexer call has Lexeme = source[start:off) and
\* pos = start of that call, whatever Lexeme the Lexer set; 0 <= start <= off <=
\* len(source) always; the ranges of successive Lexer calls, yielded or ignored, are
\* contiguous from 0.
C8_LexemeIsCursorRange ==
  /\ 0 <= start
  /\ start <= off
  /\ off <= Len(src)
  /\ \A i \in 1..Len(lexlog) :
       /\ lexlog[i].start = IF i = 1 THEN 0 ELSE lexlog[i - 1].off
       /\ lexlog[i].start <= lexlog[i].off
       /\ lexlog[i].off <= Len(src)
  /\ Len(lexlog) > 0 => off = lexlog[Len(lexlog)].off
  /\ Len(Results) <= Len(yielded)
  /\ \A i \in 1..Len(Results) :
       /\ yielded[i].Lexeme = SubSeq(src, Results[i].start + 1, Results[i].off)
       /\ yielded[i].pos = Results[i].start
C8_Witness ==
  /\ Len(lexlog) = 2
  /\ lexlog[1].tk = Ignore
  /\ lexlog[2].tk.Lexeme = <<"z">>
  /\ Len(yielded) = 1
  /\ yielded[1].pos = 1
  /\ yielded[1].Lexeme = <<"k", "\n">>

\* C9: when the source failed to load, the stream yields one token, with the load
\* error as its Value, and then ends; the Lexer is never called.
C9_LoadErrorStream ==
  scerr # "nil" =>
    /\ lexlog = <<>>
    /\ npull = 0 => yielded = <<>> /\ it = "new"
    /\ npull >= 1 => yielded = <<Token(EOFToken, scerr, <<>>, 0)>>
    /\ npull = 1 => it = "eof" /\ tok.Value = scerr
    /\ npull >= 2 => it = "done" /\ tok = EOF
C9_Witness ==
  /\ scerr = "ENOENT"
  /\ it = "done"
  /\ yielded = <<Token(EOFToken, "ENOENT", <<>>, 0)>>

\* the lines of the source, and the numbers of those holding a malformed record
SrcLines == Split(src)
NumGood == Cardinality({i \in 1..Len(SrcLines) : SrcLines[i] = GoodRecord})
BadLineSet == {i \in 1..Len(SrcLines) : SrcLines[i] \in BadRecords}
NthBadLine(n) ==
  CHOOSE i \in BadLineSet : Cardinality({j \in BadLineSet : j < i}) = n - 1

NewlinesBefore(p) == Cardinality({i \in 1..p : src[i] = "\n"})
LineStart(p) ==
  IF NewlinesBefore(p) = 0 THEN 0
  ELSE CHOOSE i \in 1..p : src[i] = "\n" /\ \A j \in (i + 1)..p : src[j] # "\n"

\* 'at <file>:<line>:<col>: expected <desc>, got "<lexeme>" instead'
ExpectText(file, line, col, desc, lexeme) ==
  <<"at ", file, ":", line, ":", col, ": ", "expected ", desc, ", got ", "\"">>
    \o lexeme \o <<"\"", " instead">>

\* the failure in flight has the text the claim gives for the offending token
\* tok, and the line the claim gives when tok has a first byte
RaisedExpectFailure ==
  /\ panic.kind = "parseError"
  /\ ErrorText(panic.pe) =
       ExpectText(fname, panic.pe.pos.Line, panic.pe.pos.Column, Desc(last.arg), tok.Lexeme)
  /\ tok # EOF => panic.pe.pos.Line = 1 + NewlinesBefore(tok.pos)
ExpectFailed == last.op = "Expect" /\ last.ret = "false"
RecordedAsRaised ==
  (ExpectFailed /\ last'.op = "Synchronize") =>
    /\ Len(errors') = Len(errors) + 1
    /\ ErrorText(errors'[Len(errors')]) = ErrorText(panic.pe)

C6_ColumnCountsCharsInLine ==
  (panic.kind = "parseError" /\ tok # EOF) =>
    panic.pe.pos.Column = tok.pos - LineStart(tok.pos) + 1

\* ---------------------------------------------------------------- a whole parse run
\* The record driver run to its end, over a source that loaded or failed to load.
\* The driver is one sequential program: it takes its next step whenever it has one.
InitRun ==
  /\ pc = "loop"
  /\ \E s \in ReadString(RecordTexts) \cup ReadFile({}) :
       InitParser(s.src, s.fname, s.err, "byte", {<<"o">>})

SpecRun == InitRun /\ [][NextRecords]_vars /\ WF_vars(NextRecords)

\* C11: when the source failed to load, the driver
\* for p.More() { guarded production } terminates, and Finish returns the source
\* error.
C11_RunEndsOnSourceError ==
  (scerr # "nil") ~> (pc = "finished" /\ errors = <<PlainError(scerr)>>)

\* ---------------------------------------------------------------- nested guards
\* A production guarded by Synchronize, called in a loop by a production that is
\* guarded by Synchronize too: a panic the inner guard lets through reaches the
\* outer one.
InitGuards ==
  /\ pc = "outer"
  /\ \E s \in ReadString(Texts({"o", "s", "\n"}, MaxLen)) \cup ReadFile({<<"\n", "x">>}) :
       InitParser(s.src, s.fname, s.err, "byte", {<<"o">>})

NextGuards ==
  \/ pc = "outer" /\ MayPull /\ More /\ pc' = IF last'.ret = "true" THEN "inner" ELSE "defer2"
  \/ pc = "inner" /\ MayPull /\ Skip /\ UNCHANGED pc
  \/ /\ pc = "inner" /\ MayPull /\ MayRaise
     /\ \E tk \in Tags : Expect(tk, Desc(tk))
     /\ pc' = IF panic' = NoPanic THEN "outer" ELSE "defer1"
  \/ pc = "inner" /\ CallErr("E1") /\ pc' = "defer1"
  \/ pc = "inner" /\ Raise("boom") /\ pc' = "defer1"
  \/ pc = "defer1" /\ RunSynchronize /\ pc' = IF panic' = NoPanic THEN "outer" ELSE "defer2"
  \/ pc = "defer2" /\ RunSynchronize /\ pc' = "top"

SpecGuards == InitGuards /\ [][NextGuards]_vars

IsForeign(pn) == pn.kind \notin {"none", "stopparsing", "parseError"}

\* a guard runs while a foreign panic propagates: it is the first to see it, or
\* the guard below it has just let it through
ForeignPasses == last'.op = "Synchronize" /\ (IsForeign(panic) \/ last.ret = "repanic")

\* C12: a panic whose payload is neither a parse failure nor a terminal stop is
\* re-raised by every Synchronize it passes with the payload it had, nothing is
\* joined into the errors and no token is skipped.
C12_ForeignPanicPassesUnchanged ==
  [][ForeignPasses =>
       /\ panic' = panic
       /\ errors' = errors
       /\ consumed' = consumed /\ npull' = npull /\ peek' = peek /\ tok' = tok]_vars

\* ---------------------------------------------------------------- the joined error
\* a Synchronize recovers the parse failure in flight
Recovering == last'.op = "Synchronize" /\ panic.kind = "parseError"
\* a terminal stop is raised
Stopping == panic'.kind = "stopparsing" /\ panic.kind # "stopparsing"

\* C13: the accumulated error starts empty (nil), each recovery joins the failure
\* that was raised behind the ones joined before, and no other step that raises no
\* terminal stop changes it; no parser operation, Finish included, touches Value:
\* after k recoveries and no terminal stop Finish returns the driver's Value and
\* the k failures in the order they were raised.
C13_FinishReturnsFailuresInOrder ==
  /\ [](last.op = "Init" => errors = <<>>)
  /\ [][/\ Recovering => errors' = errors \o <<panic.pe>>
        /\ (~Recovering /\ ~Stopping) => errors' = errors
        /\ Value' = Value]_vars
C13_Witness ==
  /\ last.op = "Finish"
  /\ Len(errors) = 2
  /\ errors[1].kind = "parseError" /\ errors[2].kind = "parseError"
  /\ errors[1].pos.Offset < errors[2].pos.Offset

\* ---------------------------------------------------------------- byteReader
\* scaled buffer size (bufLen = 8192 in the source): the first allocation, and
\* the floor of every later one; large enough for minReadSize to be above 1
bufLen == 8
\* minReadSize = bufLen >> 2
minReadSize == bufLen \div 4
\* longest content of the reader behind a byteReader
MaxInput == 3

Max(a, b) == IF a > b THEN a ELSE b

\* func (b *byteReader) window() []byte
window(b) == SubSeq(b.data, b.off + 1, Len(b.data))

\* func (b *byteReader) release(n int)
release(b, n) == [b EXCEPT !.off = @ + n]

\* b.r.Read(p) with len(p) = space: some bytes of what the reader holds, at least
\* one while it holds any and p has room, with a nil error or, with the last of
\* them, io.EOF; io.EOF alone once it holds nothing; an error at any time if the
\* reader is one that fails.
ReadResults(rd, space) ==
  LET most == Min(space, Len(rd.pending))
      some == {[chunk |-> SubSeq(rd.pending, 1, k), err |-> "nil",
                rd |-> [rd EXCEPT !.pending = SubSeq(@, k + 1, Len(@))]] : k \in 1..most}
      tail == IF most = Len(rd.pending)
                THEN {[chunk |-> rd.pending, err |-> "EOF", rd |-> [rd EXCEPT !.pending = <<>>]]}
                ELSE {}
      none == IF space = 0 /\ Len(rd.pending) > 0
                THEN {[chunk |-> <<>>, err |-> "nil", rd |-> rd]} ELSE {}
      fail == IF rd.fails THEN {[chunk |-> <<>>, err |-> "EIO", rd |-> rd]} ELSE {}
  IN  some \cup tail \cup none \cup fail

\* making room with a compact() that resets off and leaves the bytes where they are
MakeRoom_CompactDoesNotMove(b) ==
  LET remaining == Len(b.data) - b.off
      b1 == IF remaining = 0 THEN [b EXCEPT !.data = <<>>, !.off = 0] ELSE b
      reset == IF remaining = 0 THEN "reset, " ELSE ""
  IN  IF b1.cap - Len(b1.data) >= minReadSize
        THEN [br |-> b1, how |-> reset \o "in place"]
      ELSE IF b1.cap - remaining >= minReadSize
        THEN [br |-> [b1 EXCEPT !.off = 0], how |-> reset \o "compact"]
      ELSE [br |-> [b1 EXCEPT !.data = window(b1), !.off = 0,
                              !.cap = Max(b1.cap * 2, bufLen)],
            how |-> reset \o "grow"]

\* making room with a grow() that allocates one byte more
MakeRoom_GrowsByOne(b) ==
  LET remaining == Len(b.data) - b.off
      b1 == IF remaining = 0 THEN [b EXCEPT !.data = <<>>, !.off = 0] ELSE b
      reset == IF remaining = 0 THEN "reset, " ELSE ""
  IN  IF b1.cap - Len(b1.data) >= minReadSize
        THEN [br |-> b1, how |-> reset \o "in place"]
      ELSE IF b1.cap - remaining >= minReadSize
        THEN [br |-> [b1 EXCEPT !.data = window(b1), !.off = 0], how |-> reset \o "compact"]
      ELSE [br |-> [b1 EXCEPT !.data = window(b1), !.off = 0, !.cap = b1.cap + 1],
            how |-> reset \o "grow"]

\* extend from its first test to the Read: the window is kept, by the reset of
\* an empty one, in place, by compact() or by grow(); how says which
MakeRoom(b) ==
  LET remaining == Len(b.data) - b.off
      b1 == IF remaining = 0 THEN [b EXCEPT !.data = <<>>, !.off = 0] ELSE b
      reset == IF remaining = 0 THEN "reset, " ELSE ""
  IN  IF b1.cap - Len(b1.data) >= minReadSize
        THEN [br |-> b1, how |-> reset \o "in place"]
      ELSE IF b1.cap - remaining >= minReadSize
        THEN [br |-> [b1 EXCEPT !.data = window(b1), !.off = 0], how |-> reset \o "compact"]
      ELSE [br |-> [b1 EXCEPT !.data = window(b1), !.off = 0,
                              !.cap = Max(b1.cap * 2, bufLen)],
            how |-> reset \o "grow"]

\* len(b.data[remaining:cap(b.data)]): the space extend hands to Read
ReadSpace(b) ==
  LET b2 == MakeRoom(b).br
  IN  b2.cap - (Len(b.data) - b.off + b2.off)

\* extend past its first test: make room, read, keep what was read and the
\* reader's error
Refill(b) ==
  LET remaining == Len(b.data) - b.off
      b2 == MakeRoom(b).br
      at == remaining + b2.off
  IN  {[br |-> [b2 EXCEPT !.data = SubSeq(@, 1, at) \o r.chunk,
                          !.err = r.err, !.rd = r.rd, !.nread = @ + 1],
        n |-> Len(r.chunk)]
       : r \in ReadResults(b2.rd, ReadSpace(b))}

\* an extend that reads again after the reader reported an error or the end
extend_ReadsAgain(b) ==
  IF ~b.open THEN {[br |-> b, n |-> 0]} ELSE Refill(b)

\* func (b *byteReader) extend() int: the possible results, each with the number
\* of bytes read
extend(b) ==
  IF b.err # "nil" \/ ~b.open THEN {[br |-> b, n |-> 0]} ELSE Refill(b)

\* a scanner over a reader that holds text (the window empty, nothing read yet)
OverReader(text, fails) ==
  [NoReader EXCEPT !.open = TRUE, !.rd = [pending |-> text, fails |-> fails]]
\* func ScanFiles(names ...string) *Scanner: no reader yet, sc.br.err = io.EOF
OverNoFile == [NoReader EXCEPT !.err = "EOF"]

\* the parser is not used by the specifications of the streaming scanner
InitScanner(b) ==
  /\ pc = "scan"
  /\ InitFields(<<>>, "<input>", "nil", "byte", {})
  /\ br = b
  /\ out = NoOut
  /\ sc = NoScanner

parservars == <<src, fname, scerr, start, off, lx, it, peek, tok, errors, Value,
                syncLit, panic, lexlog, yielded, npull, consumed, last>>

\* what a recognizer has before it: the window and what the reader still holds
Input(b) == window(b) \o b.rd.pending

\* extend is called (by a recognizer that ran out of window)
Extend ==
  /\ \E e \in extend(br) :
       /\ br' = e.br
       /\ out' = [NoOut EXCEPT !.op = "extend", !.ret = e.n,
                                 !.idle = IF br.err # "nil" THEN Min(out.idle + 1, 2) ELSE 0,
                                 !.input = Input(br), !.win = Len(window(br)),
                                 !.st = IF extend(br) = {[br |-> br, n |-> 0]} THEN 0
                                        ELSE ReadSpace(br),
                                 !.r = IF extend(br) = {[br |-> br, n |-> 0]} THEN "idle"
                                       ELSE MakeRoom(br).how]
  /\ UNCHANGED <<parservars, sc>>

\* func (b *byteReader) release(n int): n bytes of the window are released
Release(n) ==
  /\ n \in 1..Len(window(br))
  /\ br' = release(br, n)
  /\ out' = [NoOut EXCEPT !.op = "release", !.ret = n]
  /\ UNCHANGED <<parservars, sc>>

InitReader ==
  \E b \in {OverReader(t, f) : t \in Texts({"a", "b"}, MaxInput), f \in BOOLEAN} \cup {OverNoFile} :
    InitScanner(b)

NextReader ==
  \/ Extend /\ UNCHANGED pc
  \/ (\E n \in 1..bufLen : Release(n)) /\ UNCHANGED pc

SpecReader == InitReader /\ [][NextReader]_vars

\* C14: once the reader has reported the end of the input or an error, every
\* extend returns 0 and leaves data, the window's start (off) and the recorded
\* error as they are, and the reader is not called again.
C14_ExtendIsIdleAfterEnd ==
  [][(br.err # "nil" /\ out'.op = "extend" /\ out'.idle > 0) =>
       /\ out'.ret = 0
       /\ br'.data = br.data /\ br'.off = br.off /\ br'.err = br.err
       /\ br'.nread = br.nread /\ br'.rd = br.rd]_vars
C14_Witness ==
  /\ out.op = "extend" /\ out.idle = 2
  /\ br.open /\ br.nread >= 2 /\ br.err = "EIO"
  /\ br.off > 0 /\ Len(br.rd.pending) > 0

\* ---------------------------------------------------------------- LexString, LexIdent
\* longest input of a recognizer
MaxText == 4

\* var quotechars: the double quote, the single quote and the backtick
\* (the backtick byte is written as the string "backtick")
backtick == "backtick"
quotechars == {"\"", "'", backtick}

\* var identchars = [256]bool{...}: the entries the table sets
identchars ==
  {"a", "b", "c", "d", "e", "f", "g", "h", "i", "j", "k", "l", "m", "n", "o", "p", "q",
   "r", "s", "t", "u", "v", "w", "x", "y", "z",
   "A", "B", "C", "D", "E", "F", "G", "H", "I", "J", "K", "L", "M", "N", "O", "P", "Q",
   "R", "S", "T", "U", "V", "W", "X", "Y",
   "_", "-"}

\* a LexString loop that treats an escaped byte as any other
RECURSIVE LexStringLoop_NoEscape(_, _, _, _)
LexStringLoop_NoEscape(b, offset, escaped, quote) ==
  LET w == window(b)
  IN  IF offset < Len(w)
        THEN IF w[offset + 1] = quote
               THEN {[br |-> b, n |-> offset + 1]}
               ELSE LexStringLoop_NoEscape(b, offset + 1, FALSE, quote)
        ELSE UNION {IF e.n = 0 THEN {[br |-> e.br, n |-> offset]}
                    ELSE LexStringLoop_NoEscape(e.br, offset, escaped, quote)
                    : e \in extend(b)}

\* a LexString loop that reports no match when the input ends inside the string
RECURSIVE LexStringLoop_FailsAtEnd(_, _, _, _)
LexStringLoop_FailsAtEnd(b, offset, escaped, quote) ==
  LET w == window(b)
  IN  IF offset < Len(w)
        THEN LET char == w[offset + 1]
             IN  IF escaped THEN LexStringLoop_FailsAtEnd(b, offset + 1, FALSE, quote)
                 ELSE IF char = quote THEN {[br |-> b, n |-> offset + 1]}
                 ELSE IF char = "\\" THEN LexStringLoop_FailsAtEnd(b, offset + 1, TRUE, quote)
                 ELSE LexStringLoop_FailsAtEnd(b, offset + 1, escaped, quote)
        ELSE UNION {IF e.n = 0 THEN {[br |-> e.br, n |-> 0]}
                    ELSE LexStringLoop_FailsAtEnd(e.br, offset, escaped, quote)
                    : e \in extend(b)}

\* a LexString loop that forgets the escape flag when it takes a new window
RECURSIVE LexStringLoop_ForgetsEscape(_, _, _, _)
LexStringLoop_ForgetsEscape(b, offset, escaped, quote) ==
  LET w == window(b)
  IN  IF offset < Len(w)
        THEN LET char == w[offset + 1]
             IN  IF escaped THEN LexStringLoop_ForgetsEscape(b, offset + 1, FALSE, quote)
                 ELSE IF char = quote THEN {[br |-> b, n |-> offset + 1]}
                 ELSE IF char = "\\" THEN LexStringLoop_ForgetsEscape(b, offset + 1, TRUE, quote)
                 ELSE LexStringLoop_ForgetsEscape(b, offset + 1, escaped, quote)
        ELSE UNION {IF e.n = 0 THEN {[br |-> e.br, n |-> offset]}
                    ELSE LexStringLoop_ForgetsEscape(e.br, offset, FALSE, quote)
                    : e \in extend(b)}

\* LexString from winLoop on: the bytes of the window from offset, one by one,
\* then extend and the new window, until the quote or the end of the input
RECURSIVE LexStringLoop(_, _, _, _)
LexStringLoop(b, offset, escaped, quote) ==
  LET w == window(b)
  IN  IF offset < Len(w)
        THEN LET char == w[offset + 1]
             IN  IF escaped THEN LexStringLoop(b, offset + 1, FALSE, quote)
                 ELSE IF char = quote THEN {[br |-> b, n |-> offset + 1]}
                 ELSE IF char = "\\" THEN LexStringLoop(b, offset + 1, TRUE, quote)
                 ELSE LexStringLoop(b, offset + 1, escaped, quote)
        ELSE UNION {IF e.n = 0 THEN {[br |-> e.br, n |-> offset]}
                    ELSE LexStringLoop(e.br, offset, escaped, quote)
                    : e \in extend(b)}

\* func (s *Scanner) LexString() (n int)
LexString(b) ==
  LET w == window(b)
  IN  IF Len(w) = 0 \/ w[1] \notin quotechars
        THEN {[br |-> b, n |-> 0]}
        ELSE LexStringLoop(b, 1, FALSE, w[1])

\* func (s *Scanner) LexIdent() int
RECURSIVE LexIdent(_, _)
LexIdent(b, offset) ==
  LET w == window(b)
  IN  IF offset < Len(w)
        THEN IF w[offset + 1] \notin identchars
               THEN {[br |-> b, n |-> offset]}
               ELSE LexIdent(b, offset + 1)
        ELSE UNION {IF e.n = 0 THEN {[br |-> e.br, n |-> offset]}
                    ELSE LexIdent(e.br, offset)
                    : e \in extend(b)}

CallLexString ==
  /\ \E r \in LexString(br) :
       /\ br' = r.br
       /\ out' = [NoOut EXCEPT !.op = "LexString", !.ret = r.n, !.input = Input(br),
                                 !.win = Len(window(br))]
  /\ UNCHANGED <<parservars, sc>>

CallLexIdent ==
  /\ \E r \in LexIdent(br, 0) :
       /\ br' = r.br
       /\ out' = [NoOut EXCEPT !.op = "LexIdent", !.ret = r.n, !.input = Input(br),
                                 !.win = Len(window(br))]
  /\ UNCHANGED <<parservars, sc>>

\* the scanner fills and releases its window, then a recognizer is called once
InitLex ==
  \E t \in Texts({"\"", "'", "\\", "a"}, MaxText)
           \cup {<<backtick, "a", backtick>>, <<backtick, "\"", backtick, "a">>}
           \cup Texts({"a", "Z", "-", " "}, MaxText - 1)
           \cup {<<"_", "a">>, <<"y", "z", "A", "Y">>} :
    InitScanner(OverReader(t, FALSE))

NextLex ==
  \/ pc = "scan" /\ Extend /\ UNCHANGED pc
  \/ pc = "scan" /\ Release(1) /\ UNCHANGED pc
  \/ pc = "scan" /\ CallLexString /\ pc' = "called"
  \/ pc = "scan" /\ CallLexIdent /\ pc' = "called"

SpecLex == InitLex /\ [][NextLex]_vars

\* the byte at i of s is escaped: the byte before it is a backslash that is not
\* escaped itself (the opening quote at 1 escapes nothing)
RECURSIVE Escaped(_, _)
Escaped(s, i) == IF i <= 2 THEN FALSE ELSE s[i - 1] = "\\" /\ ~Escaped(s, i - 1)

\* where the quote that opens s occurs again unescaped
Closings(s) == {i \in 2..Len(s) : s[i] = s[1] /\ ~Escaped(s, i)}
FirstClosing(s) == CHOOSE i \in Closings(s) : \A j \in Closings(s) : i <= j

\* LexString was called on a window that starts with a quote character
OnQuoted ==
  out.op = "LexString" /\ out.win > 0 /\ out.input[1] \in quotechars

C16_UnterminatedIsWholeInput ==
  (OnQuoted /\ Closings(out.input) = {}) => out.ret = Len(out.input)
C16_Witness ==
  /\ OnQuoted
  /\ out.input = <<"\"", "a", "\\", "\"">>
  /\ out.win = 1
  /\ out.ret = 4

\* C17: LexString returns 0 for input that is not a double-quoted string: empty
\* input, and input that begins with a single quote.
C17_ZeroUnlessDoubleQuoted ==
  (out.op = "LexString" /\ (out.input = <<>> \/ out.input[1] = "'")) => out.ret = 0

\* the ASCII letters
Lower ==
  {"a", "b", "c", "d", "e", "f", "g", "h", "i", "j", "k", "l", "m", "n", "o", "p", "q",
   "r", "s", "t", "u", "v", "w", "x", "y", "z"}
Upper ==
  {"A", "B", "C", "D", "E", "F", "G", "H", "I", "J", "K", "L", "M", "N", "O", "P", "Q",
   "R", "S", "T", "U", "V", "W", "X", "Y", "Z"}
\* the length of the longest prefix of s made of bytes of class
MaximalPrefix(s, class) ==
  CHOOSE n \in 0..Len(s) :
    (\A i \in 1..n : s[i] \in class) /\ (n = Len(s) \/ s[n + 1] \notin class)

\* C18: LexIdent returns the length of the longest prefix of the input made of
\* ASCII letters (all of a-z and A-Z), underscore and hyphen.
C18_LexIdentIsLetterRun ==
  out.op = "LexIdent" =>
    out.ret = MaximalPrefix(out.input, Lower \cup Upper \cup {"_", "-"})

\* the input in one unbroken block: all of it in the window, the reader empty
Whole(text) ==
  [NoReader EXCEPT !.data = text, !.cap = Max(Len(text), bufLen), !.open = TRUE]

\* C19: whatever the reader's chunks, with the first byte in the window, LexString
\* and LexIdent return what they return on the same input in one unbroken block.
C19_ChunksDoNotMatter ==
  /\ (out.op = "LexString" /\ out.win > 0) =>
       \A r \in LexString(Whole(out.input)) : out.ret = r.n
  /\ (out.op = "LexIdent" /\ out.win > 0) =>
       \A r \in LexIdent(Whole(out.input), 0) : out.ret = r.n
C19_Witness ==
  /\ out.op = "LexString"
  /\ out.input = <<"\"", "\\", "\"", "\"">>
  /\ out.win = 2
  /\ br.nread >= 3
  /\ out.ret = 4

\* ---------------------------------------------------------------- ScanWithTable
\* const CatchAll = 0: the byte 0, which no input here holds
CatchAll == "NUL"

\* the states of scanumeral, and the merged table of numerals, IP addresses and
\* dates: for each state the pairs (byte, next state), in the order of the source
numeral == 0
date == 1
time == 2
ip == 3
final == 4
transitions ==
  <<
    \* numeral
    <<" ", final, ";", final, ".", ip, "/", date, "0", numeral, "1", numeral,
      "2", numeral, "3", numeral, "4", numeral, "5", numeral, "6", numeral,
      "7", numeral, "8", numeral, "9", numeral>>,
    \* date
    <<" ", time, "/", date, "0", date, "1", date, "2", date, "3", date, "4", date,
      "5", date, "6", date, "7", date, "8", date, "9", date>>,
    \* time
    <<":", time, ";", final, "0", time, "1", time, "2", time, "3", time, "4", time,
      "5", time, "6", time, "7", time, "8", time, "9", time>>,
    \* ip
    <<":", ip, " ", final, ";", final, ".", ip, "0", ip, "1", ip, "2", ip, "3", ip,
      "4", ip, "5", ip, "6", ip, "7", ip, "8", ip, "9", ip>>
  >>

\* a table as transgen.awk lays one out for states with a CA transition, which it
\* prints first: in state 0 any byte is taken, x leads to state 1 and ; ends; in
\* state 1 x is taken and any other byte ends
catchalls ==
  << <<CatchAll, 0, "x", 1, ";", 2>>,
     <<CatchAll, 2, "x", 1>> >>

\* the transition ScanWithTable finds for elem in the row tt: the target of the
\* first pair on elem, else of a CatchAll at the head of the row, else none (-1);
\* an index past the end of the row (tt[i+1] of a last byte without its state,
\* tt[0] or tt[1] of a row too short) is a run-time panic (-2)
Transition(tt, elem) ==
  LET hits == {i \in 1..Len(tt) : i % 2 = 1 /\ tt[i] = elem}
      first == CHOOSE i \in hits : \A j \in hits : i <= j
  IN  IF hits # {}
        THEN IF first + 1 > Len(tt) THEN -2 ELSE tt[first + 1]
      ELSE IF Len(tt) = 0 THEN -2
      ELSE IF tt[1] # CatchAll THEN -1
      ELSE IF Len(tt) = 1 THEN -2 ELSE tt[2]

\* tt := transitions[state]; a state the table has no row for gives an index
\* out of range as well, shown as a row in which every lookup panics
Row(trans, state) == IF state < Len(trans) THEN trans[state + 1] ELSE <<>>

\* a table loop that consumes the byte that leads to the final state
RECURSIVE ScanLoop_TakesFinalByte(_, _, _, _)
ScanLoop_TakesFinalByte(b, trans, offset, state) ==
  LET w == window(b)
  IN  IF offset < Len(w)
        THEN LET nstate == Transition(Row(trans, state), w[offset + 1])
             IN  IF nstate = -2
                   THEN {[br |-> b, prev |-> state, n |-> offset, panics |-> TRUE]}
                   ELSE IF nstate = -1
                   THEN {[br |-> b, prev |-> state, n |-> offset, panics |-> FALSE]}
                   ELSE IF nstate = Len(trans)
                     THEN {[br |-> b, prev |-> state, n |-> offset + 1, panics |-> FALSE]}
                     ELSE ScanLoop_TakesFinalByte(b, trans, offset + 1, nstate)
        ELSE UNION {IF e.n = 0
                      THEN {[br |-> e.br, prev |-> state, n |-> offset, panics |-> FALSE]}
                    ELSE ScanLoop_TakesFinalByte(e.br, trans, offset, state)
                    : e \in extend(b)}

\* ScanWithTable from winLoop on: end is len(transitions); each result says
\* whether the call ended in a run-time panic (index out of range)
RECURSIVE ScanLoop(_, _, _, _)
ScanLoop(b, trans, offset, state) ==
  LET w == window(b)
  IN  IF offset < Len(w)
        THEN LET nstate == Transition(Row(trans, state), w[offset + 1])
             IN  IF nstate = -2
                   THEN {[br |-> b, prev |-> state, n |-> offset, panics |-> TRUE]}
                   ELSE IF nstate = -1 \/ nstate = Len(trans)
                   THEN {[br |-> b, prev |-> state, n |-> offset, panics |-> FALSE]}
                   ELSE ScanLoop(b, trans, offset + 1, nstate)
        ELSE UNION {IF e.n = 0
                      THEN {[br |-> e.br, prev |-> state, n |-> offset, panics |-> FALSE]}
                    ELSE ScanLoop(e.br, trans, offset, state)
                    : e \in extend(b)}

\* func (s *Scanner) ScanWithTable(transitions [][]byte) (prev uint8, n int)
ScanWithTable(b, trans) == ScanLoop(b, trans, 0, 0)

CallScanWithTable(trans) ==
  /\ \E r \in ScanWithTable(br, trans) :
       /\ br' = r.br
       /\ out' = [NoOut EXCEPT !.op = "ScanWithTable", !.ret = r.n, !.st = r.prev,
                                 !.input = Input(br), !.win = Len(window(br)),
                                 !.tab = trans, !.r = IF r.panics THEN "panic" ELSE ""]
  /\ UNCHANGED <<parservars, sc>>

\* 10.67.21.85; and a date with its time
LeaseAddress == <<"1", "0", ".", "6", "7", ".", "2", "1", ".", "8", "5", ";">>
LeaseDate == <<"1", "/", "2", " ", "3", ":", "4", ";">>

InitTable ==
  \E t \in Texts({"1", ".", ";", "x"}, MaxText - 1) \cup {LeaseAddress, LeaseDate} :
    InitScanner(OverReader(t, FALSE))

NextTable ==
  \/ pc = "scan" /\ Extend /\ UNCHANGED pc
  \/ pc = "scan" /\ Release(1) /\ UNCHANGED pc
  \/ pc = "scan" /\ (\E trans \in {transitions, catchalls} : CallScanWithTable(trans))
       /\ pc' = "called"

SpecTable == InitTable /\ [][NextTable]_vars

\* the targets a row gives for a byte, and the catch-all's target
Explicit(tt, byte) == {tt[i + 1] : i \in {j \in 1..Len(tt) : j % 2 = 1 /\ tt[j] = byte}}
CatchAlls(tt) == {tt[i + 1] : i \in {j \in 1..Len(tt) : j % 2 = 1 /\ tt[j] = CatchAll}}
\* the run the claim describes from state after n bytes of input: <<state, n>>
\* where it stops
RECURSIVE TableRun(_, _, _, _)
TableRun(trans, input, state, n) ==
  IF n = Len(input)
    THEN <<state, n>>
    ELSE LET tt == trans[state + 1]
             to == IF Explicit(tt, input[n + 1]) # {} THEN Explicit(tt, input[n + 1])
                   ELSE CatchAlls(tt)
         IN  IF to = {} \/ to = {Len(trans)}
               THEN <<state, n>>
               ELSE TableRun(trans, input, CHOOSE t \in to : TRUE, n + 1)

MaxFile == 3

\* the two bytes of a code point of two bytes, the code point, and what
\* utf8.DecodeRune returns for bytes that are no code point
lead == "C3"
cont == "A9"
eacute == "U+00E9"
RuneError == "U+FFFD"
\* const eof = 0, the rune Token returns at the end
eof == "U+0000"

\* case ' ', '\r', '\t', and '\n' that falls through to them
blanks == {" ", "\r", "\t", "\n"}

\* r, _ := utf8.DecodeRune(p), for the bytes of the inputs
DecodeRune(p) ==
  IF Len(p) = 0 THEN RuneError
  ELSE IF p[1] = lead THEN IF Len(p) >= 2 /\ p[2] = cont THEN eacute ELSE RuneError
  ELSE IF p[1] = cont THEN RuneError
  ELSE p[1]

\* the slice w of Token: the bytes lo..hi of the array arr, which is the array
\* under b.data while live, and an array of its own after grow() left it behind
Slice(b) == [arr |-> b.data, lo |-> b.off, hi |-> Len(b.data), live |-> TRUE]
Bytes(w) == SubSeq(w.arr, w.lo + 1, w.hi)

\* what the slice w shows once extend turned b into b2: compact() and Read write
\* into the array under it, grow() allocates another
AfterExtend(w, b, b2) ==
  IF ~w.live \/ b2 = b THEN w
  ELSE IF b2.cap # b.cap THEN [w EXCEPT !.live = FALSE]
  ELSE [w EXCEPT !.arr = b2.data \o SubSeq(@, Len(b2.data) + 1, Len(@))]

\* for i, c := range w: the blanks from i on, counted in blk and line, up to
\* the first byte that is none
RECURSIVE Blanks(_, _, _, _)
Blanks(v, i, blk, line) ==
  IF i >= Len(v) THEN [found |-> FALSE, i |-> i, blk |-> blk, line |-> line]
  ELSE IF v[i + 1] \in blanks
    THEN Blanks(v, i + 1, blk + 1, IF v[i + 1] = "\n" THEN line + 1 ELSE line)
  ELSE [found |-> TRUE, i |-> i, blk |-> blk, line |-> line]

\* s.br.r, s.br.err = os.Open(s.last.Name)
Open(b, f) ==
  [b EXCEPT !.open = TRUE,
            !.rd = [pending |-> f.text, fails |-> f.fails],
            !.err = IF f.missing THEN "ENOENT" ELSE "nil"]

\* fLoop of Token, which keeps the w of its first statement while extend
\* returns bytes
RECURSIVE fLoop(_, _, _, _)
fLoop(b, s, w, blk) ==
  LET sk == Blanks(Bytes(w), 0, blk, s.line)
      s1 == [s EXCEPT !.line = sk.line]
  IN  IF sk.found
        THEN {[br |-> release(b, sk.blk), sc |-> s1,
               r |-> DecodeRune(SubSeq(Bytes(w), sk.i + 1, Len(Bytes(w))))]}
        ELSE UNION {
          IF e.n # 0 THEN fLoop(e.br, s1, AfterExtend(w, b, e.br), sk.blk)
          ELSE IF s.last = Len(s.files) THEN {[br |-> e.br, sc |-> s1, r |-> eof]}
          ELSE LET s2 == [s1 EXCEPT !.last = @ + 1]
               IN  UNION {fLoop(o.br, [s2 EXCEPT !.offset = 0, !.line = 1], Slice(o.br), sk.blk)
                          : o \in extend(Open(e.br, s2.files[s2.last]))}
          : e \in extend(b)}

\* func (s *Scanner) Token() rune
Scanner_Token(b, s) == fLoop(b, s, Slice(b), 0)


\* utf8.RuneLen(r), for the runes of the inputs
RuneLen(r) == IF r = eacute THEN 2 ELSE IF r = RuneError THEN 3 ELSE 1

\* func scanumeral(sc *parsekit.Scanner, lead rune) (rune, int), the token as
\* the name of its constant
scanumeral(b, tk) ==
  {[br |-> r.br,
    tok |-> IF r.prev = numeral THEN "NumberToken"
            ELSE IF r.prev = time THEN "DateTimeToken"
            ELSE IF r.prev = ip THEN "IPToken" ELSE "InvalidType",
    n |-> IF r.prev = ip THEN r.n + RuneLen(tk) - 1 ELSE r.n]
   : r \in ScanWithTable(b, transitions)}

\* func scantk(sc *parsekit.Scanner, tk rune) (rune, int), the token as the rune
\* itself or the name of its constant
digits == {"0", "1", "2", "3", "4", "5", "6", "7", "8", "9"}
scantk(b, tk) ==
  IF tk = eof THEN {[br |-> b, tok |-> eof, n |-> 0]}
  ELSE IF tk \in {"{", "}", ";"} THEN {[br |-> b, tok |-> tk, n |-> 1]}
  ELSE IF tk = "\"" THEN {[br |-> r.br, tok |-> "StringToken", n |-> r.n] : r \in LexString(b)}
  ELSE IF tk \in digits THEN scanumeral(b, tk)
  ELSE {[br |-> r.br, tok |-> "IdentToken", n |-> r.n] : r \in LexIdent(b, 0)}

\* func (s *Scanner) bytes(n int) []byte: the first n bytes of the window, or of
\* the array past the end of data (up to its capacity), where the array holds
\* zeroes or the bytes of an earlier read, shown as stale; beyond the capacity
\* the slice expression panics
stale == "stale"
bytes(b, n) ==
  LET w == window(b)
  IN  [i \in 1..n |-> IF i <= Len(w) THEN w[i] ELSE stale]
OutOfRange(b, n) == n > b.cap - b.off

\* func (s *Scanner) Advance(n int)
Advance(b, s, n) == [br |-> release(b, n), sc |-> [s EXCEPT !.offset = @ + n]]

\* a file by its name: what reading it delivers, whether reading it fails, and
\* whether it is missing (os.Open fails)
File(name, text) == [name |-> name, text |-> text, fails |-> FALSE, missing |-> FALSE]
Missing(name) == [name |-> name, text |-> <<>>, fails |-> FALSE, missing |-> TRUE]
Unreadable(name, text) == [name |-> name, text |-> text, fails |-> TRUE, missing |-> FALSE]

\* func (sc *Scanner) Error() error
Scanner_Error(b) == b.err

\* func ScanFiles(names ...string) *Scanner
ScanFiles(files) ==
  /\ br = OverNoFile
  /\ sc = [NoScanner EXCEPT !.files = files]

\* s.br.window() of a byteReader whose off was released past len(data) panics
\* (slice bounds out of range)
Crashes(b) == b.off > Len(b.data)

filevars == <<src, fname, scerr, start, off, lx, it, peek, tok, errors, Value,
              syncLit, panic, lexlog, npull, consumed, last>>

\* tk := p.sc.Token(), of Parser.next
CallToken ==
  /\ IF Crashes(br)
       THEN /\ out' = [NoOut EXCEPT !.op = "Token", !.r = "panic"]
            /\ pc' = "crashed"
            /\ UNCHANGED <<br, sc>>
       ELSE \E t \in Scanner_Token(br, sc) :
              /\ br' = t.br
              /\ sc' = t.sc
              /\ out' = [NoOut EXCEPT !.op = "Token", !.r = t.r]
              /\ pc' = IF t.r = eof THEN "eof" ELSE "lex"
  /\ UNCHANGED <<filevars, yielded>>

\* p.tok, off = p.lx(p.sc, tk); p.Lit = string(p.sc.bytes(off)); p.sc.Advance(off)
\* of Parser.next, with scantk as the Lexer; yielded records the tokens
CallLexer ==
  /\ IF Crashes(br)
       THEN /\ out' = [NoOut EXCEPT !.op = "Lexer", !.r = "panic"]
            /\ pc' = "crashed"
            /\ UNCHANGED <<br, sc, yielded>>
       ELSE \E l \in scantk(br, out.r) :
              IF OutOfRange(l.br, l.n)
                THEN /\ br' = l.br
                     /\ out' = [NoOut EXCEPT !.op = "Lexer", !.r = "panic"]
                     /\ pc' = "crashed"
                     /\ UNCHANGED <<sc, yielded>>
                ELSE LET a == Advance(l.br, sc, l.n)
                     IN  /\ br' = a.br
                         /\ sc' = a.sc
                         /\ out' = [NoOut EXCEPT !.op = "Lexer", !.r = out.r, !.ret = l.n]
                         /\ yielded' = Append(yielded, [lead |-> out.r, tok |-> l.tok,
                                                        lit |-> bytes(l.br, l.n)])
                         /\ pc' = IF l.n = 0 THEN "stuck" ELSE "scan"
  /\ UNCHANGED filevars

\* func (b *byteReader) rearview() []byte
rearview(b) == SubSeq(b.data, 1, b.off)

\* r, sz := utf8.DecodeLastRune(p), for the bytes of the inputs
DecodeLastRune(p) ==
  IF Len(p) = 0 THEN [r |-> RuneError, sz |-> 0]
  ELSE IF p[Len(p)] = cont /\ Len(p) >= 2 /\ p[Len(p) - 1] = lead THEN [r |-> eacute, sz |-> 2]
  ELSE IF p[Len(p)] \in {lead, cont} THEN [r |-> RuneError, sz |-> 1]
  ELSE [r |-> p[Len(p)], sz |-> 1]

\* the loop of Pos over the rearview w, from its end i backwards
RECURSIVE PosLoop(_, _, _)
PosLoop(w, i, col) ==
  IF i <= 0 THEN col
  ELSE LET d == DecodeLastRune(SubSeq(w, 1, i))
       IN  IF d.r = "\n" THEN col + 1 ELSE PosLoop(w, i - d.sz, col + 1)

\* func (s *Scanner) Pos() Position
Scanner_Pos(b, s) ==
  Position(IF s.last = 0 THEN "" ELSE s.files[s.last].name, s.offset, s.line,
           PosLoop(rearview(b), b.off, 0))

\* p.sc.Pos() of Errf, between two tokens or after the last
CallPos ==
  /\ IF Crashes(br)
       THEN /\ out' = [NoOut EXCEPT !.op = "Pos", !.r = "panic"]
            /\ pc' = "crashed"
       ELSE LET pos == Scanner_Pos(br, sc)
            IN  /\ out' = [NoOut EXCEPT !.op = "Pos", !.ret = pos.Column, !.st = pos.Line,
                                         !.win = pos.Offset]
                /\ pc' = pc
  /\ UNCHANGED <<filevars, yielded, br, sc>>

\* the files of a scan
FileTexts(n) == Texts({" ", "\n", "a", ";"}, n) \cup {t \in Texts({" ", lead, cont}, n) : Len(t) > 1}
FileLists ==
  {<<File("f1", t)>> : t \in FileTexts(MaxFile)}
  \cup {<<File("f1", t), File("f2", u)>> : t \in FileTexts(MaxFile - 1), u \in FileTexts(MaxFile - 2)}
  \cup {<<Missing("f1"), File("f2", u)>> : u \in FileTexts(MaxFile - 2)}
  \cup {<<Unreadable("f1", <<"a">>), File("f2", u)>> : u \in FileTexts(MaxFile - 2)}
  \cup {<<File("f1", <<"a">> \o [i \in 1..bufLen - 1 |-> " "] \o <<"a">>)>>}

InitScan ==
  \E fs \in FileLists :
    /\ pc = "scan"
    /\ InitFields(<<>>, "<input>", "nil", "byte", {})
    /\ ScanFiles(fs)
    /\ out = NoOut

\* Parser.next over and over, up to the end of the files or to a token of no
\* bytes, after which every call yields that token again
NextScan ==
  \/ pc = "scan" /\ CallToken
  \/ pc = "lex" /\ CallLexer
  \/ pc \in {"scan", "eof"} /\ CallPos

SpecScan == InitScan /\ [][NextScan]_vars

\* the input a scan has left: the window, what the reader of the current file
\* still holds, and the files after it
RECURSIVE FilesFrom(_, _)
FilesFrom(files, i) ==
  IF i > Len(files) THEN <<>> ELSE files[i].text \o FilesFrom(files, i + 1)
RestOfScan(b, s) ==
  window(b) \o (IF b.open THEN b.rd.pending ELSE <<>>) \o FilesFrom(s.files, s.last + 1)

RECURSIVE LeadingBlanks(_)
LeadingBlanks(t) ==
  IF t # <<>> /\ t[1] \in blanks THEN 1 + LeadingBlanks(Tail(t)) ELSE 0
Newlines(t) == Cardinality({i \in 1..Len(t) : t[i] = "\n"})

\* C21: over one file, however its reader chunks it, Token returns the first
\* code point of the remaining input that is not white space, releases exactly
\* the white space before it and counts each newline of it once; it returns 0
\* only when nothing but white space remains.
C21_TokenIsChunkIndependent ==
  [][(out'.op = "Token" /\ out'.r # "panic" /\ Len(sc.files) = 1 /\ ~sc.files[1].missing) =>
       LET inp == RestOfScan(br, sc)
           k == LeadingBlanks(inp)
           line == IF sc.last = 0 THEN 1 ELSE sc.line
       IN  IF k < Len(inp)
             THEN /\ out'.r = DecodeRune(SubSeq(inp, k + 1, Len(inp)))
                  /\ RestOfScan(br', sc') = SubSeq(inp, k + 1, Len(inp))
                  /\ sc'.line = line + Newlines(SubSeq(inp, 1, k))
             ELSE out'.r = eof]_vars

\* a file scanned alone: its bytes read whole, the end of the file seen
Loaded(f) ==
  [br |-> [NoReader EXCEPT !.data = f.text, !.cap = Max(bufLen, Len(f.text)),
                           !.err = "EOF", !.open = TRUE],
   sc |-> [NoScanner EXCEPT !.files = <<f>>, !.last = 1, !.line = 1]]
\* the (lead rune, lexeme) pairs Token, scantk and Advance yield from there
RECURSIVE Pairs(_)
Pairs(at) ==
  LET t == CHOOSE t \in Scanner_Token(at.br, at.sc) : TRUE
      l == CHOOSE l \in scantk(t.br, t.r) : TRUE
      pair == [lead |-> t.r, lit |-> bytes(l.br, l.n)]
  IN  IF t.r = eof THEN <<>>
      ELSE IF l.n = 0 THEN <<pair>>
      ELSE <<pair>> \o Pairs(Advance(l.br, t.sc, l.n))
RECURSIVE PairsOfEach(_, _)
PairsOfEach(files, i) ==
  IF i > Len(files) THEN <<>> ELSE Pairs(Loaded(files[i])) \o PairsOfEach(files, i + 1)

\* every Read so far has delivered the whole of a file that exists
WholeReads ==
  /\ br.nread <= sc.last
  /\ sc.last = 0 \/ br.err = "EOF"
  /\ \A i \in 1..Len(sc.files) : ~sc.files[i].missing
Yielded == [i \in 1..Len(yielded) |-> [lead |-> yielded[i].lead, lit |-> yielded[i].lit]]

\* C22: while files that exist are scanned in order, each delivered by one Read,
\* the (lead rune, lexeme) pairs yielded so far are the first ones of the pairs
\* of the first file scanned alone, followed by those of the second one, and so
\* on; at the end of the scan they are all of them, and the scan does not fail.
C22_FilesAreOneStream ==
  WholeReads =>
    LET all == PairsOfEach(sc.files, 1)
    IN  /\ Len(Yielded) <= Len(all)
        /\ Yielded = SubSeq(all, 1, Len(Yielded))
        /\ pc # "crashed"
        /\ pc = "eof" => Yielded = all

\* ---------------------------------------------------------------- Init without a Lexer
\* the iterator is resumed by a token operation and reaches tk := lx(s) with a
\* Lexer that was never set: the call panics with a runtime error, which
\* iter.Pull hands to the operation that pulled, and the iterator is over
NilLexerPanics ==
  /\ panic = NoPanic
  /\ lx = "nil" /\ ~peek /\ it = "new" /\ scerr = "nil" /\ off < Len(src)
  /\ panic' = ForeignPanic("nil Lexer")
  /\ Apply([Machine EXCEPT !.it = "done", !.npull = @ + 1])
  /\ last' = Did("panic", "nil Lexer", Machine, FALSE)
  /\ UNCHANGED <<errors, Value, scvars>>

\* Init with a source and with or without WithLexer
InitOptions ==
  /\ pc = "free"
  /\ \E s \in ReadString(Texts({"o", "s"}, MaxLen)) \cup ReadFile({}),
        lexer \in {"byte", "nil"} :
       InitParser(s.src, s.fname, s.err, lexer, {<<"o">>})

NextOptions ==
  \/ pc = "free" /\ MayPull /\ More /\ UNCHANGED pc
  \/ pc = "free" /\ MayPull /\ Skip /\ UNCHANGED pc
  \/ pc = "free" /\ MayPull /\ MayRaise /\ (\E tk \in Tags : Expect(tk, Desc(tk))) /\ UNCHANGED pc
  \/ pc = "free" /\ NilLexerPanics /\ UNCHANGED pc
  \/ pc = "free" /\ Synchronize /\ UNCHANGED pc
  \/ pc = "free" /\ Finish /\ pc' = "finished"

SpecOptions == InitOptions /\ [][NextOptions]_vars

\* C23: a parser that Init returned for a source and no Lexer is one whose
\* construction failed: Init raised a panic or recorded an error.
C23_InitFailsWithoutLexer ==
  (lx = "nil" /\ last.op = "Init") => (panic # NoPanic \/ errors # <<>>)

\* ---------------------------------------------------------------- the buffer
\* longest stream behind the byteReader: more than the buffer holds
MaxStream == 10
\* a stream of n bytes that all differ
Numbered(n) == SubSeq(<<"1", "2", "3", "4", "5", "6", "7", "8", "9", "a", "b", "c">>, 1, n)

InitBuffer ==
  \E n \in 0..MaxStream, f \in BOOLEAN : InitScanner(OverReader(Numbered(n), f))

\* any sequence of extend and release calls
NextBuffer ==
  \/ Extend /\ UNCHANGED pc
  \/ (\E n \in 1..Len(window(br)) : Release(n)) /\ UNCHANGED pc

SpecBuffer == InitBuffer /\ [][NextBuffer]_vars

\* C24: after extend, the window is the window before the call followed by the
\* n bytes the reader delivered, which are the next n bytes of the stream, and
\* nothing of the stream is lost: the window and what the reader still holds are
\* together what they were.
C24_ExtendKeepsTheWindow ==
  out.op = "extend" =>
    /\ window(br) = SubSeq(out.input, 1, out.win + out.ret)
    /\ Input(br) = out.input
C24_Witness ==
  /\ out.op = "extend" /\ out.r = "compact"
  /\ out.win > 0 /\ out.ret > 0 /\ Len(br.rd.pending) > 0

\* C25: after any extend and release calls, 0 <= off <= len(data) <= cap(data),
\* and every Read of extend was handed at least minReadSize bytes.
C25_BufferInvariant ==
  /\ 0 <= br.off /\ br.off <= Len(br.data) /\ Len(br.data) <= br.cap
  /\ (out.op = "extend" /\ out.r # "idle") => out.st >= minReadSize
C25_Witness ==
  /\ out.op = "extend" /\ out.r = "grow"
  /\ br.cap > bufLen /\ out.win > 0 /\ br.off = 0 /\ br.nread > 2

\* ---------------------------------------------------------------- recovery after Expect
\* Synchronize runs on the parseError of the Expect that has just failed on tok
AfterFailedExpect ==
  last.op = "Expect" /\ panic.kind = "parseError" /\ last'.op = "Synchronize"

\* C26: the recovery after a failed Expect begins at the offending token: if its
\* lexeme is a synchronisation literal Synchronize stops at it, without pulling
\* any token, and otherwise at the first token after it whose lexeme is one (or
\* at EOF); this with or without a lookahead buffered before the Expect.
C26_RecoveryStartsAtOffender ==
  [][AfterFailedExpect =>
       IF tok # EOF /\ tok.Lexeme \in syncLit
         THEN tok' = tok /\ npull' = npull /\ peek'
         ELSE LET new == SubSeq(yielded', Len(yielded) + 1, Len(yielded'))
              IN  /\ \A i \in 1..(Len(new) - 1) : new[i].Lexeme \notin syncLit
                  /\ tok' = EOF \/ tok'.Lexeme \in syncLit]_vars

\* ---------------------------------------------------------------- a guarded production in a loop
\* most errors a run records before its driver is stopped
MaxErrors == 3

InitLoop ==
  /\ pc = "loop"
  /\ \E s \in ReadString(Texts({"o", "s", "x"}, MaxLen)) :
       InitParser(s.src, s.fname, s.err, "byte", {<<"o">>})

\* for p.More() { func() { defer p.Synchronize(); ... }() } and then p.Finish(),
\* the production any sequence of Expect and Skip calls
NextLoop ==
  \/ pc = "loop" /\ MayPull /\ More /\ pc' = IF last'.ret = "true" THEN "body" ELSE "end"
  \/ /\ pc = "body" /\ MayPull /\ Len(errors) < MaxErrors
     /\ \E tk \in Tags : Expect(tk, Desc(tk))
     /\ pc' = IF panic' = NoPanic THEN "body" ELSE "defer"
  \/ pc = "body" /\ MayPull /\ Skip /\ UNCHANGED pc
  \/ pc \in {"body", "defer"} /\ RunSynchronize /\ pc' = "loop"
  \/ pc = "end" /\ Finish /\ pc' = "finished"

SpecLoop == InitLoop /\ [][NextLoop]_vars

\* the token at offset p drew the last two failures Synchronize recorded
FailedTwiceAt(p) ==
  /\ Len(errors) >= 2
  /\ errors[Len(errors)].pos.Offset = p
  /\ errors[Len(errors) - 1].pos.Offset = p

\* C27: a token is consumed between two consecutive failures that Synchronize
\* records: when Synchronize returns at a token that is still to be consumed,
\* the last two failures were not both drawn by that token.
C27_RecoveryMakesProgress ==
  (last.op = "Synchronize" /\ peek /\ tok # EOF) => ~FailedTwiceAt(tok.pos)

\* ---------------------------------------------------------------- the error set
\* the syntax failures among the errors Finish would return
Failures(errs) == {errs[i] : i \in {j \in 1..Len(errs) : errs[j].kind = "parseError"}}

\* C28: no parser operation, Err and Errf included, removes a syntax failure
\* that Synchronize has joined from the error Finish returns.
C28_ErrorsOnlyGrow ==
  [][Failures(errors) \subseteq Failures(errors')]_vars

\* ---------------------------------------------------------------- tables of any shape
\* a table with a state that has no transition: x leads from state 0 to state 1,
\* where the token ends
closing ==
  << <<"x", 1>>,
     <<>> >>
\* a table whose state 1 ends the token on ; and has no other transition
ending ==
  << <<"x", 1, ";", 2>>,
     <<";", 2>> >>

InitRows ==
  \E t \in Texts({"x", ";"}, MaxText - 1) : InitScanner(OverReader(t, FALSE))

NextRows ==
  \/ pc = "scan" /\ Extend /\ UNCHANGED pc
  \/ pc = "scan" /\ Release(1) /\ UNCHANGED pc
  \/ pc = "scan" /\ (\E trans \in {closing, ending, catchalls} : CallScanWithTable(trans))
       /\ pc' = "called"

SpecRows == InitRows /\ [][NextRows]_vars

\* every target of the table is a state or the final sentinel
TargetsInRange(tab) ==
  \A s \in 1..Len(tab) : \A i \in 1..Len(tab[s]) : i % 2 = 0 => tab[s][i] \in 0..Len(tab)

\* C29: on a table whose targets are at most the final sentinel, ScanWithTable
\* does not index out of range, whatever the input, and returns a state below
\* the final sentinel.
C29_ScanWithTableStaysInRange ==
  (out.op = "ScanWithTable" /\ TargetsInRange(out.tab)) =>
    out.r # "panic" /\ out.st < Len(out.tab)

\* the part of its one file a scan has consumed
ConsumedPrefix ==
  LET text == sc.files[1].text
  IN  SubSeq(text, 1, Len(text) - Len(RestOfScan(br, sc)))
\* the bytes of t after its last newline, and the code points among them
RECURSIVE SinceNewline(_)
SinceNewline(t) ==
  IF t = <<>> \/ t[Len(t)] = "\n" THEN <<>>
  ELSE Append(SinceNewline(SubSeq(t, 1, Len(t) - 1)), t[Len(t)])
Runes(t) == Cardinality({i \in 1..Len(t) : t[i] # cont})

\* C30: the position Pos reports is that of the consumed input alone: the line
\* is one more than the newlines consumed, and the column is the number of
\* characters consumed since the last of them, on the first line as on later
\* ones, whatever extend did to the buffer.
C30_PosIsOfConsumedInput ==
  (out.op = "Pos" /\ out.r # "panic" /\ Len(sc.files) = 1 /\ sc.last = 1
     /\ ~sc.files[1].missing) =>
    /\ out.st = 1 + Newlines(ConsumedPrefix)
    /\ out.ret = Runes(SinceNewline(ConsumedPrefix))


\* ---------------------------------------------------------------- Scanner.Error
\* C31: a failure to open or to read a file of the scan is sticky: once
\* Scanner.Error() reports it, it reports it after every later step, and once
\* the scan has reached a file that cannot be opened, Scanner.Error() reports
\* that failure, also when the files after it open and read.
C31_FailureIsSticky ==
  [][/\ Scanner_Error(br) \in {"ENOENT", "EIO"} => Scanner_Error(br') = Scanner_Error(br)
     /\ \A i \in 1..sc'.last : sc'.files[i].missing => Scanner_Error(br') = "ENOENT"]_vars

====
